---------------------------- MODULE Spec2Model ----------------------------
(***************************************************************************)
(* Dense column-major matrices: the owning Matrix, the non-owning          *)
(* MatrixView / MatrixConstView and the generic algorithms of namespace    *)
(* mat.  Storage is one heap of cells; an object is the descriptor         *)
(* (kind, data, rows, cols, ld) its class holds.  Element values are       *)
(* integers standing for integer-valued doubles.                           *)
(***************************************************************************)
EXTENDS Integers, Sequences, FiniteSets, TLC

VARIABLES mem,    \* the heap: address -> value
          pre,    \* the heap as it was when the last call started
          A, B,   \* the two owning matrices
          V, W,   \* the two view objects (NoObj until constructed)
          org,    \* constructor arguments of V and W
          call,   \* the last call: its name, arguments and outcome
          hist,   \* the mutating calls that returned, oldest first
          steps   \* number of mutating calls made so far

vars == <<mem, pre, A, B, V, W, org, call, hist, steps>>

(* ------------------------------- bounds -------------------------------- *)
MaxDim == 4
MaxWrites == 1
SizeBits == 4
MaxN == 3
MaxSteps == 3
MaxEps == 2
MaxK == 3
MaxRep == 2
MaxArith == 2

\* size_t arithmetic wraps modulo 2^SizeBits
SizeMod == 2 ^ SizeBits
SizeMax == SizeMod - 1
SizeT(x) == x % SizeMod

Min(x, y) == IF x < y THEN x ELSE y
fabs(x) == IF x < 0 THEN 0 - x ELSE x

(* ------------------------------ objects -------------------------------- *)
NoObj == [kind |-> "none", data |-> 0, rows |-> 0, cols |-> 0, ld |-> 0]
NoOrg == [parent |-> "none", row_offset |-> 0, col_offset |-> 0]
Idle == [op |-> "none", ok |-> TRUE]

\* Matrix: data, rows, cols; getLd() returns rows
Matrix(data_arg, rows_arg, cols_arg) ==
    [kind |-> "Matrix", data |-> data_arg, rows |-> rows_arg,
     cols |-> cols_arg, ld |-> rows_arg]

getRows(M) == M.rows
getCols(M) == M.cols
getLd(M) == IF M.kind = "Matrix" THEN M.rows ELSE M.ld
getData(M) == M.data
IsMutable(M) == M.kind \in {"Matrix", "MatrixView"}

\* the mutated constructor: offsets applied in row-major fashion
ViewCtorRowMajor(kind, arg, row_offset, col_offset, rows_arg, cols_arg) ==
    [ok |-> /\ row_offset < getRows(arg)
            /\ SizeT(row_offset + rows_arg) <= getRows(arg)
            /\ col_offset < getCols(arg)
            /\ SizeT(col_offset + cols_arg) <= getCols(arg),
     view |-> [kind |-> kind,
               data |-> getData(arg) + row_offset * getLd(arg) + col_offset,
               rows |-> rows_arg, cols |-> cols_arg, ld |-> getLd(arg)]]

\* the mutated constructor: the upper bounds are not checked
ViewCtorNoUpper(kind, arg, row_offset, col_offset, rows_arg, cols_arg) ==
    [ok |-> /\ row_offset < getRows(arg)
            /\ col_offset < getCols(arg),
     view |-> [kind |-> kind,
               data |-> getData(arg) + row_offset + col_offset * getLd(arg),
               rows |-> rows_arg, cols |-> cols_arg, ld |-> getLd(arg)]]

\* MatrixView(arg, row_offset, col_offset, rows, cols) and the same
\* constructor of MatrixConstView: the members, and the assertion (ok)
ViewCtor(kind, arg, row_offset, col_offset, rows_arg, cols_arg) ==
    [ok |-> /\ row_offset < getRows(arg)
            /\ SizeT(row_offset + rows_arg) <= getRows(arg)
            /\ col_offset < getCols(arg)
            /\ SizeT(col_offset + cols_arg) <= getCols(arg),
     view |-> [kind |-> kind,
               data |-> getData(arg) + row_offset + col_offset * getLd(arg),
               rows |-> rows_arg, cols |-> cols_arg, ld |-> getLd(arg)]]

\* the mutated operator(): a view strides by its rows, not by ld
AddrStrideRows(M, i, j) == M.data + i + j * M.rows

\* operator()(i, j): the address of element (i, j)
Addr(M, i, j) ==
    IF M.kind = "Matrix" THEN M.data + i + j * M.rows
                         ELSE M.data + i + j * M.ld

InHeap(h, a) == a \in DOMAIN h
At(h, M, i, j) == h[Addr(M, i, j)]

\* the elements of M in column-major order
ColMajor(h, M) ==
    [k \in 1..(M.rows * M.cols) |->
        At(h, M, (k - 1) % M.rows, (k - 1) \div M.rows)]
\* the elements of M in row-major order
RowMajor(h, M) ==
    [k \in 1..(M.rows * M.cols) |->
        At(h, M, (k - 1) \div M.cols, (k - 1) % M.cols)]

Obj(name) == CASE name = "A" -> A
               [] name = "B" -> B
               [] name = "V" -> V
               [] name = "W" -> W

(* --------------------------- view operations --------------------------- *)
ViewKinds == {"MatrixView", "MatrixConstView"}
Offsets == 0..MaxDim
Extents == (1..MaxDim) \cup {SizeMax}
SubOffsets == 0..1
SubExtent == 2
WriteIdx == 0..1
WriteVal == 0 - 1

\* a fresh rows x cols Matrix whose element (i, j) holds i + rows*j
InitView ==
    /\ \E r \in {MaxDim}, c \in {MaxDim - 2, MaxDim} :
          /\ A = Matrix(0, r, c)
          /\ mem = [a \in 0..(r * c - 1) |-> a]
    /\ pre = mem
    /\ B = NoObj /\ V = NoObj /\ W = NoObj
    /\ org = [V |-> NoOrg, W |-> NoOrg]
    /\ call = Idle
    /\ hist = <<>>
    /\ steps = 0

\* V is constructed as a view of A, W as a view of the MatrixView V
ConstructView(slot, kind, row_offset, col_offset, rows_arg, cols_arg) ==
    LET pname == IF slot = "V" THEN "A" ELSE "V"
        arg == Obj(pname)
        r == ViewCtor(kind, arg, row_offset, col_offset, rows_arg, cols_arg)
    IN  /\ call.ok
        /\ Obj(slot) = NoObj
        /\ arg # NoObj
        /\ IsMutable(arg)
        /\ call' = [op |-> kind, slot |-> slot, parent |-> arg,
                    row_offset |-> row_offset, col_offset |-> col_offset,
                    rows |-> rows_arg, cols |-> cols_arg, ok |-> r.ok]
        /\ IF r.ok
           THEN /\ V' = IF slot = "V" THEN r.view ELSE V
                /\ W' = IF slot = "W" THEN r.view ELSE W
                /\ org' = [org EXCEPT ![slot] =
                              [parent |-> pname, row_offset |-> row_offset,
                               col_offset |-> col_offset]]
           ELSE UNCHANGED <<V, W, org>>
        /\ UNCHANGED <<mem, pre, A, B, hist, steps>>

\* M(i, j) = val through the object in slot name
WriteElem(name, i, j, val) ==
    LET M == Obj(name)
    IN  /\ call.ok
        /\ steps < MaxWrites
        /\ IsMutable(M)
        /\ i < M.rows /\ j < M.cols
        /\ InHeap(mem, Addr(M, i, j))
        /\ mem' = [mem EXCEPT ![Addr(M, i, j)] = val]
        /\ pre' = mem
        /\ call' = [op |-> "write", ok |-> TRUE]
        /\ steps' = steps + 1
        /\ UNCHANGED <<A, B, V, W, org, hist>>

ConstructV ==
    \E kind \in ViewKinds, ro \in Offsets, co \in Offsets,
       r \in Extents, c \in Extents :
          ConstructView("V", kind, ro, co, r, c)

ConstructW ==
    \E kind \in ViewKinds, ro \in SubOffsets, co \in SubOffsets :
          ConstructView("W", kind, ro, co, SubExtent, SubExtent)

Write ==
    \E name \in {"A", "V", "W"}, i \in WriteIdx, j \in WriteIdx :
          WriteElem(name, i, j, WriteVal)

NextView == ConstructV \/ ConstructW \/ Write

SpecView == InitView /\ [][NextView]_vars

(* ------------------------- generic algorithms -------------------------- *)
\* std::fill_n(p, n, val)
fill_n(h, p, n, val) ==
    [a \in DOMAIN h |-> IF p <= a /\ a < p + n THEN val ELSE h[a]]

\* MatrixView::setAll: one fill_n of rows cells per column, from p to
\* data + cols*ld in steps of ld
RECURSIVE ViewSetAllLoop(_, _, _, _)
ViewSetAllLoop(h, M, p, val) ==
    IF p < M.data + M.cols * M.ld
    THEN ViewSetAllLoop(fill_n(h, p, M.rows, val), M, p + M.ld, val)
    ELSE h

\* the mutated setAll: one bulk fill of rows*cols cells, whatever ld is
setAllBulk(h, M, val) == fill_n(h, M.data, M.rows * M.cols, val)

\* M.setAll(val): Matrix::setAll is one fill_n over rows*cols cells
setAll(h, M, val) ==
    IF M.kind = "Matrix" THEN fill_n(h, M.data, M.rows * M.cols, val)
                         ELSE ViewSetAllLoop(h, M, M.data, val)

RECURSIVE IdentityLoop(_, _, _, _)
IdentityLoop(h, M, i, d) ==
    IF i < d
    THEN IdentityLoop([h EXCEPT ![Addr(M, i, i)] = 1], M, i + 1, d)
    ELSE h

\* the mutated set_identity: the diagonal runs over all the columns' count
\* of a square block only, the matrix is not zeroed first
set_identityNoZero(h, M) ==
    IdentityLoop(h, M, 0, Min(getCols(M), getRows(M)))

\* mat::set_identity
set_identity(h, M) ==
    IdentityLoop(setAll(h, M, 0), M, 0, Min(getCols(M), getRows(M)))

\* std::swap(M(i, j), M(j, i))
swap(h, a1, a2) == [h EXCEPT ![a1] = h[a2], ![a2] = h[a1]]

RECURSIVE TransposeLoop(_, _, _, _)
TransposeLoop(h, M, i, j) ==
    IF i >= getRows(M) THEN h
    ELSE IF j >= i THEN TransposeLoop(h, M, i + 1, 0)
    ELSE TransposeLoop(swap(h, Addr(M, i, j), Addr(M, j, i)), M, i, j + 1)

\* the mutated loop: j runs over the whole row, so every pair is swapped twice
RECURSIVE TransposeLoopFull(_, _, _, _)
TransposeLoopFull(h, M, i, j) ==
    IF i >= getRows(M) THEN h
    ELSE IF j >= getCols(M) THEN TransposeLoopFull(h, M, i + 1, 0)
    ELSE TransposeLoopFull(swap(h, Addr(M, i, j), Addr(M, j, i)), M, i, j + 1)

\* the mutated transpose
transposeFull(h, M) ==
    LET ok == getRows(M) = getCols(M)
    IN  [ok |-> ok, mem |-> IF ok THEN TransposeLoopFull(h, M, 0, 0) ELSE h]

\* mat::transpose(M), in place
transpose(h, M) ==
    LET ok == getRows(M) = getCols(M)
    IN  [ok |-> ok, mem |-> IF ok THEN TransposeLoop(h, M, 0, 0) ELSE h]

\* the inner loop of sub: *pp1++ -= *pp2++ while pp1 < end
RECURSIVE SubRows(_, _, _, _)
SubRows(h, pp1, pp2, end) ==
    IF pp1 < end
    THEN SubRows([h EXCEPT ![pp1] = h[pp1] - h[pp2]], pp1 + 1, pp2 + 1, end)
    ELSE h

\* the outer loop of sub: p1 += ld1, p2 += ld2 while p1 < data + cols*ld
RECURSIVE SubCols(_, _, _, _, _)
SubCols(h, m1, m2, p1, p2) ==
    IF p1 < getData(m1) + getCols(m1) * getLd(m1)
    THEN SubCols(SubRows(h, p1, p2, p1 + getRows(m1)), m1, m2,
                 p1 + getLd(m1), p2 + getLd(m2))
    ELSE h

\* the mutated sub: the source advances by the destination's ld
RECURSIVE SubColsOneLd(_, _, _, _, _)
SubColsOneLd(h, m1, m2, p1, p2) ==
    IF p1 < getData(m1) + getCols(m1) * getLd(m1)
    THEN SubColsOneLd(SubRows(h, p1, p2, p1 + getRows(m1)), m1, m2,
                      p1 + getLd(m1), p2 + getLd(m1))
    ELSE h

\* mat::sub(m1, m2): m1 = m1 - m2
sub(h, m1, m2) ==
    LET ok == getRows(m1) = getRows(m2) /\ getCols(m1) = getCols(m2)
    IN  [ok |-> ok,
         mem |-> IF ok THEN SubCols(h, m1, m2, getData(m1), getData(m2))
                       ELSE h]

\* the inner loop of add: *pp1++ += *pp2++ while pp1 < p1 + rows
RECURSIVE AddRows(_, _, _, _)
AddRows(h, pp1, pp2, end) ==
    IF pp1 < end
    THEN AddRows([h EXCEPT ![pp1] = h[pp1] + h[pp2]], pp1 + 1, pp2 + 1, end)
    ELSE h

\* the outer loop of add: p1 += ld1, p2 += ld2 while p1 < data + cols*ld
RECURSIVE AddCols(_, _, _, _, _)
AddCols(h, m1, m2, p1, p2) ==
    IF p1 < getData(m1) + getCols(m1) * getLd(m1)
    THEN AddCols(AddRows(h, p1, p2, p1 + getRows(m1)), m1, m2,
                 p1 + getLd(m1), p2 + getLd(m2))
    ELSE h

\* the mutated loop: the source advances by the destination's ld
RECURSIVE AddColsOneLd(_, _, _, _, _)
AddColsOneLd(h, m1, m2, p1, p2) ==
    IF p1 < getData(m1) + getCols(m1) * getLd(m1)
    THEN AddColsOneLd(AddRows(h, p1, p2, p1 + getRows(m1)), m1, m2,
                      p1 + getLd(m1), p2 + getLd(m1))
    ELSE h

\* the mutated add
addOneLd(h, m1, m2) ==
    LET ok == getRows(m1) = getRows(m2) /\ getCols(m1) = getCols(m2)
    IN  [ok |-> ok,
         mem |-> IF ok THEN AddColsOneLd(h, m1, m2, getData(m1), getData(m2))
                       ELSE h]

\* mat::add(m1, m2): m1 = m1 + m2
add(h, m1, m2) ==
    LET ok == getRows(m1) = getRows(m2) /\ getCols(m1) = getCols(m2)
    IN  [ok |-> ok,
         mem |-> IF ok THEN AddCols(h, m1, m2, getData(m1), getData(m2))
                       ELSE h]

\* the inner loop of add(m1, d): *pp1++ += d while pp1 < p1 + rows
RECURSIVE AddScalarRows(_, _, _, _)
AddScalarRows(h, pp1, end, d) ==
    IF pp1 < end
    THEN AddScalarRows([h EXCEPT ![pp1] = h[pp1] + d], pp1 + 1, end, d)
    ELSE h

\* the outer loop of add(m1, d): p1 += ld while p1 < data + cols*ld
RECURSIVE AddScalarCols(_, _, _, _)
AddScalarCols(h, m1, p1, d) ==
    IF p1 < getData(m1) + getCols(m1) * getLd(m1)
    THEN AddScalarCols(AddScalarRows(h, p1, p1 + getRows(m1), d), m1,
                       p1 + getLd(m1), d)
    ELSE h

\* mat::add(m1, d): m1 = m1 + d
addScalar(h, m1, d) ==
    [ok |-> TRUE, mem |-> AddScalarCols(h, m1, getData(m1), d)]

\* mat::sub(m1, d): add(m1, -1.0*d)
subScalar(h, m1, d) == addScalar(h, m1, (0 - 1) * d)

\* the inner loop of nrminf
RECURSIVE NrmRows(_, _, _, _)
NrmRows(h, pp, end, nrm) ==
    IF pp < end
    THEN NrmRows(h, pp + 1, end, IF fabs(h[pp]) > nrm THEN fabs(h[pp]) ELSE nrm)
    ELSE nrm

RECURSIVE NrmCols(_, _, _, _)
NrmCols(h, m, p, nrm) ==
    IF p < getData(m) + getCols(m) * getLd(m)
    THEN NrmCols(h, m, p + getLd(m), NrmRows(h, p, p + getRows(m), nrm))
    ELSE nrm

\* mat::nrminf(m)
nrminf(h, m) == NrmCols(h, m, getData(m), 0)

\* the inner loop of isDiff: TRUE as soon as a pair differs by more than tol
RECURSIVE DiffRows(_, _, _, _, _)
DiffRows(h, pp1, pp2, end, tol) ==
    IF pp1 < end
    THEN IF fabs(h[pp1] - h[pp2]) > tol THEN TRUE
         ELSE DiffRows(h, pp1 + 1, pp2 + 1, end, tol)
    ELSE FALSE

RECURSIVE DiffCols(_, _, _, _, _, _)
DiffCols(h, m1, m2, p1, p2, tol) ==
    IF p1 < getData(m1) + getCols(m1) * getLd(m1)
    THEN IF DiffRows(h, p1, p2, p1 + getRows(m1), tol) THEN TRUE
         ELSE DiffCols(h, m1, m2, p1 + getLd(m1), p2 + getLd(m2), tol)
    ELSE FALSE

\* the mutated isDiff: the difference is compared without fabs
RECURSIVE DiffRowsSigned(_, _, _, _, _)
DiffRowsSigned(h, pp1, pp2, end, tol) ==
    IF pp1 < end
    THEN IF h[pp1] - h[pp2] > tol THEN TRUE
         ELSE DiffRowsSigned(h, pp1 + 1, pp2 + 1, end, tol)
    ELSE FALSE

RECURSIVE DiffColsSigned(_, _, _, _, _, _)
DiffColsSigned(h, m1, m2, p1, p2, tol) ==
    IF p1 < getData(m1) + getCols(m1) * getLd(m1)
    THEN IF DiffRowsSigned(h, p1, p2, p1 + getRows(m1), tol) THEN TRUE
         ELSE DiffColsSigned(h, m1, m2, p1 + getLd(m1), p2 + getLd(m2), tol)
    ELSE FALSE

isDiffSigned(h, m1, m2, tol) ==
    LET ok == getRows(m2) = getRows(m1) /\ getCols(m2) = getCols(m1)
    IN  [ok |-> ok,
         ret |-> IF ok
                 THEN DiffColsSigned(h, m1, m2, getData(m1), getData(m2), tol)
                 ELSE FALSE]

\* mat::isDiff(m1, m2, tol)
isDiff(h, m1, m2, tol) ==
    LET ok == getRows(m2) = getRows(m1) /\ getCols(m2) = getCols(m1)
    IN  [ok |-> ok,
         ret |-> IF ok THEN DiffCols(h, m1, m2, getData(m1), getData(m2), tol)
                       ELSE FALSE]

\* for (i = 0; i < cols; i++) for (j = 0; i + j < cols; j++)
\*    if (fabs(m1(j, j + i) - m2(j, j + i)) > tol) return true;
RECURSIVE DiffDiagonals(_, _, _, _, _, _)
DiffDiagonals(h, m1, m2, tol, i, j) ==
    IF i >= getCols(m1) THEN FALSE
    ELSE IF ~(i + j < getCols(m1)) THEN DiffDiagonals(h, m1, m2, tol, i + 1, 0)
    ELSE IF fabs(At(h, m1, j, j + i) - At(h, m2, j, j + i)) > tol THEN TRUE
    ELSE DiffDiagonals(h, m1, m2, tol, i, j + 1)

\* the mutated isDiffSym: every element is compared, as isDiff does
isDiffSymAll(h, m1, m2, tol) ==
    LET ok == /\ getRows(m2) = getRows(m1) /\ getCols(m2) = getCols(m1)
              /\ getRows(m2) = getCols(m1) /\ getCols(m2) = getRows(m1)
    IN  [ok |-> ok,
         ret |-> IF ok THEN DiffCols(h, m1, m2, getData(m1), getData(m2), tol)
                       ELSE FALSE]

\* mat::isDiffSym(m1, m2, tol)
isDiffSym(h, m1, m2, tol) ==
    LET ok == /\ getRows(m2) = getRows(m1) /\ getCols(m2) = getCols(m1)
              /\ getRows(m2) = getCols(m1) /\ getCols(m2) = getRows(m1)
    IN  [ok |-> ok,
         ret |-> IF ok THEN DiffDiagonals(h, m1, m2, tol, 0, 0) ELSE FALSE]

(* ------------------------ copies and assignment ------------------------ *)
\* memcpy(d, s, n * sizeof(double)) between distinct blocks
memcpy(h, d, s, n) ==
    [a \in DOMAIN h |-> IF d <= a /\ a < d + n THEN h[s + (a - d)] ELSE h[a]]

\* for (j = 0; j < cols; j++) memcpy(data + j*ld, arg.data + j*arg.ld, rows)
RECURSIVE AssignLoop(_, _, _, _, _)
AssignLoop(h, a, ld, arg, j) ==
    IF j < a.cols
    THEN AssignLoop(memcpy(h, a.data + j * ld, getData(arg) + j * getLd(arg),
                           a.rows),
                    a, ld, arg, j + 1)
    ELSE h

\* the mutated loop: the source is read with stride rows instead of its ld
RECURSIVE AssignLoopDense(_, _, _, _, _)
AssignLoopDense(h, a, ld, arg, j) ==
    IF j < a.cols
    THEN AssignLoopDense(memcpy(h, a.data + j * ld,
                                getData(arg) + j * getRows(arg), a.rows),
                         a, ld, arg, j + 1)
    ELSE h

\* the mutated Matrix::operator=
MatrixAssignDense(h, a, arg) ==
    LET ok == a.rows = getRows(arg) /\ a.cols = getCols(arg)
    IN  [ok |-> ok,
         mem |-> IF ok THEN AssignLoopDense(h, a, a.rows, arg, 0) ELSE h]

\* template Matrix::operator=(const Mat &arg)
MatrixAssign(h, a, arg) ==
    LET ok == a.rows = getRows(arg) /\ a.cols = getCols(arg)
    IN  [ok |-> ok, mem |-> IF ok THEN AssignLoop(h, a, a.rows, arg, 0) ELSE h]

\* the mutated MatrixView::operator=
MatrixViewAssignDense(h, a, arg) ==
    LET ok == a.rows = getRows(arg) /\ a.cols = getCols(arg)
    IN  [ok |-> ok,
         mem |-> IF ok THEN AssignLoopDense(h, a, a.ld, arg, 0) ELSE h]

\* the mutated MatrixView::operator=: the destination is written with
\* stride rows instead of its ld
MatrixViewAssignPacked(h, a, arg) ==
    LET ok == a.rows = getRows(arg) /\ a.cols = getCols(arg)
    IN  [ok |-> ok, mem |-> IF ok THEN AssignLoop(h, a, a.rows, arg, 0) ELSE h]

\* template MatrixView::operator=(const Mat &arg)
MatrixViewAssign(h, a, arg) ==
    LET ok == a.rows = getRows(arg) /\ a.cols = getCols(arg)
    IN  [ok |-> ok, mem |-> IF ok THEN AssignLoop(h, a, a.ld, arg, 0) ELSE h]

\* a = b for a Matrix or MatrixView a and an operand b of another class
Assign(h, a, b) ==
    IF a.kind = "Matrix" THEN MatrixAssign(h, a, b)
                         ELSE MatrixViewAssign(h, a, b)

\* mat::col_copy(src, col_src, dest, col_dest)
col_copy(h, src, col_src, dest, col_dest) ==
    LET ok == /\ getRows(src) = getRows(dest)
              /\ col_src < getCols(src) /\ col_dest < getCols(dest)
    IN  [ok |-> ok,
         mem |-> IF ok
                 THEN memcpy(h, getData(dest) + col_dest * getLd(dest),
                             getData(src) + col_src * getLd(src), getRows(src))
                 ELSE h]

\* the loop of row_copy: *p2 = *p1 while p1 < src.data + src.cols*src.ld
RECURSIVE RowCopyLoop(_, _, _, _, _)
RowCopyLoop(h, src, dest, p1, p2) ==
    IF p1 < getData(src) + getCols(src) * getLd(src)
    THEN RowCopyLoop([h EXCEPT ![p2] = h[p1]], src, dest,
                     p1 + getLd(src), p2 + getLd(dest))
    ELSE h

\* the mutated loop: both pointers advance by the source's ld
RECURSIVE RowCopyLoopOneLd(_, _, _, _, _)
RowCopyLoopOneLd(h, src, dest, p1, p2) ==
    IF p1 < getData(src) + getCols(src) * getLd(src)
    THEN RowCopyLoopOneLd([h EXCEPT ![p2] = h[p1]], src, dest,
                          p1 + getLd(src), p2 + getLd(src))
    ELSE h

\* the mutated row_copy
row_copyOneLd(h, src, row_src, dest, row_dest) ==
    LET ok == /\ getCols(src) = getCols(dest)
              /\ row_src < getRows(src) /\ row_dest < getRows(dest)
    IN  [ok |-> ok,
         mem |-> IF ok
                 THEN RowCopyLoopOneLd(h, src, dest, getData(src) + row_src,
                                       getData(dest) + row_dest)
                 ELSE h]

\* the mutated row_copy: the source pointer starts at the first row
row_copyFirstRow(h, src, row_src, dest, row_dest) ==
    LET ok == /\ getCols(src) = getCols(dest)
              /\ row_src < getRows(src) /\ row_dest < getRows(dest)
    IN  [ok |-> ok,
         mem |-> IF ok
                 THEN RowCopyLoop(h, src, dest, getData(src),
                                  getData(dest) + row_dest)
                 ELSE h]

\* the pairs <<p1, p2>> the loop of row_copy dereferences, in order
RECURSIVE RowCopyTrace(_, _, _, _)
RowCopyTrace(src, dest, p1, p2) ==
    IF p1 < getData(src) + getCols(src) * getLd(src)
    THEN <<<<p1, p2>>>> \o RowCopyTrace(src, dest, p1 + getLd(src),
                                        p2 + getLd(dest))
    ELSE <<>>

\* mat::row_copy(src, row_src, dest, row_dest)
row_copy(h, src, row_src, dest, row_dest) ==
    LET ok == /\ getCols(src) = getCols(dest)
              /\ row_src < getRows(src) /\ row_dest < getRows(dest)
    IN  [ok |-> ok,
         mem |-> IF ok
                 THEN RowCopyLoop(h, src, dest, getData(src) + row_src,
                                  getData(dest) + row_dest)
                 ELSE h]

(* ------------------------------- repmat ------------------------------- *)
\* mat::col_copy(src, col_src, row_offset_src, row_nb,
\*               dest, col_dest, row_offset_dest); the sums are size_t
col_copyRange(h, src, col_src, row_offset_src, row_nb, dest, col_dest, row_offset_dest) ==
    LET ok == /\ col_src < getCols(src) /\ col_dest < getCols(dest)
              /\ row_offset_src < getRows(src)
              /\ SizeT(row_offset_src + row_nb) <= getRows(src)
              /\ row_offset_dest < getRows(dest)
              /\ SizeT(row_offset_dest + row_nb) <= getRows(dest)
    IN  [ok |-> ok,
         mem |-> IF ok
                 THEN memcpy(h, getData(dest) + row_offset_dest
                                   + col_dest * getLd(dest),
                             getData(src) + row_offset_src
                                   + col_src * getLd(src),
                             row_nb)
                 ELSE h]

\* for i < multv, for j < multh, for k < a.cols:
\*    col_copy(a, k, 0, a.rows, repMat, a.cols * j + k, a.rows * i)
RECURSIVE RepmatLoop(_, _, _, _, _, _, _, _)
RepmatLoop(h, a, multv, multh, repMat, i, j, k) ==
    IF i >= multv THEN [ok |-> TRUE, mem |-> h]
    ELSE IF j >= multh THEN RepmatLoop(h, a, multv, multh, repMat, i + 1, 0, 0)
    ELSE IF k >= getCols(a)
    THEN RepmatLoop(h, a, multv, multh, repMat, i, j + 1, 0)
    ELSE LET r == col_copyRange(h, a, k, 0, getRows(a), repMat,
                                SizeT(getCols(a) * j + k),
                                SizeT(getRows(a) * i))
         IN  IF r.ok
             THEN RepmatLoop(r.mem, a, multv, multh, repMat, i, j, k + 1)
             ELSE r

\* the mutated repmat: only the first row of tiles is written
repmatOneRow(h, a, multv, multh, repMat) ==
    IF ~(/\ getRows(repMat) = SizeT(multv * getRows(a))
         /\ getCols(repMat) = SizeT(multh * getCols(a)))
    THEN [ok |-> FALSE, mem |-> h]
    ELSE RepmatLoop(h, a, Min(multv, 1), multh, repMat, 0, 0, 0)

\* mat::repmat(a, multv, multh, repMat)
repmat(h, a, multv, multh, repMat) ==
    IF ~(/\ getRows(repMat) = SizeT(multv * getRows(a))
         /\ getCols(repMat) = SizeT(multh * getCols(a)))
    THEN [ok |-> FALSE, mem |-> h]
    ELSE RepmatLoop(h, a, multv, multh, repMat, 0, 0, 0)

(* ------------------------- index-vector family ------------------------- *)
\* how a call ended: "none" (returned), "assert" (an assertion failed) or
\* "stl" (the checked std::vector::operator[] stopped the program)
Returned(h) == [ok |-> TRUE, abort |-> "none", mem |-> h]
Aborted(h, how) == [ok |-> FALSE, abort |-> how, mem |-> h]
Outcome(r) == IF r.ok THEN Returned(r.mem) ELSE Aborted(r.mem, "assert")

Iota(n) == [k \in 1..n |-> k - 1]

\* the mutated IndexSide: an index beyond the axis is clamped to the last
\* index of the axis instead of stopping the call
IndexSideClamp(v, count, checked) ==
    IF Len(v) = 0
    THEN IF count > 0 /\ checked
         THEN [abort |-> "stl", n |-> count, vp |-> <<>>]
         ELSE [abort |-> "none", n |-> count, vp |-> Iota(count)]
    ELSE IF count = 0 \/ ~(Len(v) <= count)
         THEN [abort |-> "assert", n |-> Len(v), vp |-> v]
         ELSE [abort |-> "none", n |-> Len(v),
               vp |-> [k \in 1..Len(v) |-> Min(v[k], count - 1)]]

\* the mutated IndexSide: the length of a non-empty list is not compared
\* with the count of its axis
IndexSideAnyLen(v, count, checked) ==
    IF Len(v) = 0
    THEN IF count > 0 /\ checked
         THEN [abort |-> "stl", n |-> count, vp |-> <<>>]
         ELSE [abort |-> "none", n |-> count, vp |-> Iota(count)]
    ELSE IF \E i \in 1..Len(v) : ~(v[i] < count)
         THEN [abort |-> "assert", n |-> 0, vp |-> v]
         ELSE [abort |-> "none", n |-> Len(v), vp |-> v]

\* One index list against the count of its axis.
\* Empty list: tmp.reserve(count); tmp[i] = i for i < count.  tmp has size
\* 0, so tmp[i] is out of its range: undefined behaviour.  A library whose
\* operator[] is unchecked stores into the reserved block and the list reads
\* back as 0..count-1; a checked library (checked = TRUE) stops the program
\* at the first store.
\* Non-empty list: assert(v[i] < count) for each i, then
\* assert(n <= count).
IndexSide(v, count, checked) ==
    IF Len(v) = 0
    THEN IF count > 0 /\ checked
         THEN [abort |-> "stl", n |-> count, vp |-> <<>>]
         ELSE [abort |-> "none", n |-> count, vp |-> Iota(count)]
    ELSE IF \E i \in 1..Len(v) : ~(v[i] < count)
         THEN [abort |-> "assert", n |-> 0, vp |-> v]
         ELSE IF ~(Len(v) <= count)
              THEN [abort |-> "assert", n |-> Len(v), vp |-> v]
              ELSE [abort |-> "none", n |-> Len(v), vp |-> v]

\* for (j = 0; j < ncols; ++j) col_copy(b, (*vpCols)[j], a, (*vpToCols)[j])
RECURSIVE ColCopies(_, _, _, _, _, _, _)
ColCopies(h, a, vpToCols, b, vpCols, j, ncols) ==
    IF j < ncols
    THEN LET r == col_copy(h, b, vpCols[j + 1], a, vpToCols[j + 1])
         IN  IF r.ok THEN ColCopies(r.mem, a, vpToCols, b, vpCols, j + 1, ncols)
                     ELSE Aborted(r.mem, "assert")
    ELSE Returned(h)

\* mat::reorderColumnsByVectors(a, vToCols, b, vcols)
reorderColumnsByVectors(h, a, vToCols, b, vcols, checked) ==
    IF ~(getRows(b) = getRows(a)) THEN Aborted(h, "assert")
    ELSE IF Len(vToCols) = 0 /\ Len(vcols) = 0 THEN Outcome(Assign(h, a, b))
    ELSE LET to == IndexSide(vToCols, getCols(a), checked)
             from == IndexSide(vcols, getCols(b), checked)
         IN  IF to.abort # "none" THEN Aborted(h, to.abort)
             ELSE IF from.abort # "none" THEN Aborted(h, from.abort)
             ELSE IF ~(to.n = from.n /\ from.n > 0) THEN Aborted(h, "assert")
             ELSE ColCopies(h, a, to.vp, b, from.vp, 0, from.n)

\* for (i = 0; i < nrows; ++i) row_copy(b, (*vpRows)[i], a, (*vpToRows)[i])
RECURSIVE RowCopies(_, _, _, _, _, _, _)
RowCopies(h, a, vpToRows, b, vpRows, i, nrows) ==
    IF i < nrows
    THEN LET r == row_copy(h, b, vpRows[i + 1], a, vpToRows[i + 1])
         IN  IF r.ok THEN RowCopies(r.mem, a, vpToRows, b, vpRows, i + 1, nrows)
                     ELSE Aborted(r.mem, "assert")
    ELSE Returned(h)

\* mat::reorderRowsByVectors(a, vToRows, b, vrows)
reorderRowsByVectors(h, a, vToRows, b, vrows, checked) ==
    IF ~(getCols(b) = getCols(a)) THEN Aborted(h, "assert")
    ELSE IF Len(vToRows) = 0 /\ Len(vrows) = 0 THEN Outcome(Assign(h, a, b))
    ELSE LET to == IndexSide(vToRows, getRows(a), checked)
             from == IndexSide(vrows, getRows(b), checked)
         IN  IF to.abort # "none" THEN Aborted(h, to.abort)
             ELSE IF from.abort # "none" THEN Aborted(h, from.abort)
             ELSE IF ~(to.n = from.n /\ from.n > 0) THEN Aborted(h, "assert")
             ELSE RowCopies(h, a, to.vp, b, from.vp, 0, from.n)

\* for i < nrows, for j < ncols:
\*    a((*vpToRows)[i], (*vpToCols)[j]) = b((*vpRows)[i], (*vpCols)[j])
RECURSIVE Scatter(_, _, _, _, _, _, _, _, _)
Scatter(h, a, vpToRows, vpToCols, b, vpRows, vpCols, i, j) ==
    IF i >= Len(vpRows) THEN h
    ELSE IF j >= Len(vpCols)
    THEN Scatter(h, a, vpToRows, vpToCols, b, vpRows, vpCols, i + 1, 0)
    ELSE Scatter([h EXCEPT ![Addr(a, vpToRows[i + 1], vpToCols[j + 1])] =
                               h[Addr(b, vpRows[i + 1], vpCols[j + 1])]],
                 a, vpToRows, vpToCols, b, vpRows, vpCols, i, j + 1)

\* the first of the four sides that stopped the call, or "none"
FirstAbort(sides) ==
    IF \A k \in 1..Len(sides) : sides[k].abort = "none" THEN "none"
    ELSE LET k == CHOOSE x \in 1..Len(sides) :
                     /\ sides[x].abort # "none"
                     /\ \A y \in 1..(x - 1) : sides[y].abort = "none"
         IN  sides[k].abort

\* the mutated assignByVectors: no fast path, every call takes the general
\* path
assignByVectorsGeneral(h, a, vToRows, vToCols, b, vrows, vcols, checked) ==
    LET toR == IndexSide(vToRows, getRows(a), checked)
        toC == IndexSide(vToCols, getCols(a), checked)
        fromR == IndexSide(vrows, getRows(b), checked)
        fromC == IndexSide(vcols, getCols(b), checked)
        stop == FirstAbort(<<toR, toC, fromR, fromC>>)
    IN  IF stop # "none" THEN Aborted(h, stop)
        ELSE IF ~(toR.n = fromR.n /\ toC.n = fromC.n /\ fromR.n * fromC.n > 0)
        THEN Aborted(h, "assert")
        ELSE Returned(Scatter(h, a, toR.vp, toC.vp, b, fromR.vp, fromC.vp,
                              0, 0))

\* mat::assignByVectors(a, vToRows, vToCols, b, vrows, vcols)
assignByVectors(h, a, vToRows, vToCols, b, vrows, vcols, checked) ==
    IF Len(vToRows) = 0 /\ Len(vToCols) = 0 /\ Len(vrows) = 0 /\ Len(vcols) = 0
    THEN Outcome(Assign(h, a, b))
    ELSE IF Len(vToRows) = 0 /\ Len(vrows) = 0
    THEN reorderColumnsByVectors(h, a, vToCols, b, vcols, checked)
    ELSE IF Len(vToCols) = 0 /\ Len(vcols) = 0
    THEN reorderRowsByVectors(h, a, vToRows, b, vrows, checked)
    ELSE LET toR == IndexSide(vToRows, getRows(a), checked)
             toC == IndexSide(vToCols, getCols(a), checked)
             fromR == IndexSide(vrows, getRows(b), checked)
             fromC == IndexSide(vcols, getCols(b), checked)
             stop == FirstAbort(<<toR, toC, fromR, fromC>>)
         IN  IF stop # "none" THEN Aborted(h, stop)
             ELSE IF ~(toR.n = fromR.n /\ toC.n = fromC.n
                       /\ fromR.n * fromC.n > 0)
             THEN Aborted(h, "assert")
             ELSE Returned(Scatter(h, a, toR.vp, toC.vp, b, fromR.vp,
                                   fromC.vp, 0, 0))

(* ---------------------- the algorithms as actions ---------------------- *)
\* A is rows x cols; B is (rows+2) x (cols+2) and V is the rows x cols block
\* of B at (1, 1), so V has ld = rows + 2; cell a holds a + 1
InitAlg ==
    /\ \E r \in 0..MaxN, c \in 0..MaxN :
          /\ A = Matrix(0, r, c)
          /\ B = Matrix(r * c, r + 2, c + 2)
          /\ V = ViewCtor("MatrixView", B, 1, 1, r, c).view
          /\ mem = [a \in 0..(r * c + (r + 2) * (c + 2) - 1) |-> a + 1]
    /\ pre = mem
    /\ W = NoObj
    /\ org = [V |-> [parent |-> "B", row_offset |-> 1, col_offset |-> 1],
              W |-> NoOrg]
    /\ call = Idle
    /\ hist = <<>>
    /\ steps = 0

\* a call that may change the heap: res is [ok, mem]
Mutate(op, m1, m2, res) ==
    /\ call.ok
    /\ steps < MaxSteps
    /\ pre' = mem
    /\ mem' = res.mem
    /\ call' = [op |-> op, m1 |-> m1, m2 |-> m2, ok |-> res.ok, ret |-> 0]
    /\ hist' = IF res.ok THEN Append(hist, <<op, m1, m2>>) ELSE hist
    /\ steps' = steps + 1
    /\ UNCHANGED <<A, B, V, W, org>>

\* a call that only reads the heap and returns ret
Query(op, m1, m2, ok, ret) ==
    /\ call.ok
    /\ call' = [op |-> op, m1 |-> m1, m2 |-> m2, ok |-> ok, ret |-> ret]
    /\ UNCHANGED <<mem, pre, A, B, V, W, org, hist, steps>>

Transpose ==
    \E m \in {"A", "V"} : Mutate("transpose", m, "-", transpose(mem, Obj(m)))

SetIdentity ==
    \E m \in {"A", "V"} :
        Mutate("set_identity", m, "-",
               [ok |-> TRUE, mem |-> set_identity(mem, Obj(m))])

Sub ==
    \E m1 \in {"A", "V"}, m2 \in {"A", "B", "V"} :
        /\ m1 # m2
        /\ Mutate("sub", m1, m2, sub(mem, Obj(m1), Obj(m2)))

Nrminf ==
    \E m \in {"A", "B", "V"} :
        Query("nrminf", m, "-", TRUE, nrminf(mem, Obj(m)))

NextAlg == Transpose \/ SetIdentity \/ Sub \/ Nrminf

SpecAlg == InitAlg /\ [][NextAlg]_vars

(* ------------------------ comparing two matrices ----------------------- *)
Eps == (0 - MaxEps)..MaxEps
Tols == 0..MaxEps
NoCell == 0 - 1

\* A is rows x cols and holds a + 1 in cell a; W is the rows x cols block at
\* (1, 1) of the (rows+2) x (cols+2) Matrix B, with
\* W(i,j) = A(i,j) + eps, and delta more in the one cell d
InitDiff ==
    /\ \E r \in 0..MaxN, c \in 0..MaxN, eps \in Eps, delta \in Eps :
       \E d \in {NoCell} \cup 0..(r * c - 1) :
          /\ (d = NoCell) <=> (delta = 0)
          /\ A = Matrix(0, r, c)
          /\ B = Matrix(r * c, r + 2, c + 2)
          /\ W = ViewCtor("MatrixConstView", B, 1, 1, r, c).view
          /\ mem = [a \in 0..(r * c + (r + 2) * (c + 2) - 1) |->
                      LET b == a - r * c
                          i == (b % (r + 2)) - 1
                          j == (b \div (r + 2)) - 1
                      IN  IF a < r * c THEN a + 1
                          ELSE IF i \in 0..(r - 1) /\ j \in 0..(c - 1)
                          THEN (i + j * r + 1) + eps
                               + (IF i + j * r = d THEN delta ELSE 0)
                          ELSE 100 + a]
    /\ pre = mem
    /\ V = NoObj
    /\ org = [V |-> NoOrg,
              W |-> [parent |-> "B", row_offset |-> 1, col_offset |-> 1]]
    /\ call = Idle
    /\ hist = <<>>
    /\ steps = 0

IsDiff ==
    \E m1 \in {"A", "W"}, m2 \in {"A", "B", "W"}, tol \in Tols :
        LET r == isDiff(mem, Obj(m1), Obj(m2), tol)
        IN  /\ call.ok
            /\ call.op = "none"
            /\ call' = [op |-> "isDiff", m1 |-> m1, m2 |-> m2, tol |-> tol,
                        ok |-> r.ok, ret |-> r.ret]
            /\ UNCHANGED <<mem, pre, A, B, V, W, org, hist, steps>>

IsDiffSym ==
    \E m1 \in {"A", "W"}, m2 \in {"A", "B", "W"}, tol \in Tols :
        LET r == isDiffSym(mem, Obj(m1), Obj(m2), tol)
        IN  /\ call.ok
            /\ call.op = "none"
            /\ call' = [op |-> "isDiffSym", m1 |-> m1, m2 |-> m2, tol |-> tol,
                        ok |-> r.ok, ret |-> r.ret]
            /\ UNCHANGED <<mem, pre, A, B, V, W, org, hist, steps>>

NextDiff == IsDiff \/ IsDiffSym

SpecDiff == InitDiff /\ [][NextDiff]_vars

(* --------------------- the index-vector family --------------------- *)
DimsK == {0} \cup (MaxK - 1)..MaxK
IdxLists == {<<>>, <<0, 1>>, <<1, 0>>, <<0, 2>>, <<1, 1>>, <<2>>, <<0, 1, 0>>}

\* the destination of the call is V when it was built, A otherwise; the
\* source is W when it was built, B otherwise
Dest == IF V # NoObj THEN "V" ELSE "A"
Src == IF W # NoObj THEN "W" ELSE "B"

\* Either the destination is the ra x ca Matrix A and the source the
\* rb x cb MatrixConstView W at (1, 1) of the Matrix B, or the destination is
\* the ra x ca MatrixView V at (1, 1) of the Matrix A and the source the
\* rb x cb Matrix B.  The source has the shape of the destination, or other
\* rows, or other columns.  Cell a holds a + 1.
InitIdx ==
    /\ \E ra \in DimsK, ca \in DimsK, rb \in DimsK, cb \in DimsK,
          viewDest \in BOOLEAN :
          /\ rb = ra \/ cb = ca
          /\ rb # ra => rb = (IF ra = MaxK THEN MaxK - 1 ELSE MaxK)
          /\ cb # ca => cb = (IF ca = MaxK THEN MaxK - 1 ELSE MaxK)
          /\ IF viewDest
             THEN /\ A = Matrix(0, ra + 2, ca + 2)
                  /\ V = ViewCtor("MatrixView", A, 1, 1, ra, ca).view
                  /\ B = Matrix((ra + 2) * (ca + 2), rb, cb)
                  /\ W = NoObj
                  /\ mem = [a \in 0..((ra + 2) * (ca + 2) + rb * cb - 1)
                               |-> a + 1]
             ELSE /\ A = Matrix(0, ra, ca)
                  /\ V = NoObj
                  /\ B = Matrix(ra * ca, rb + 2, cb + 2)
                  /\ W = ViewCtor("MatrixConstView", B, 1, 1, rb, cb).view
                  /\ mem = [a \in 0..(ra * ca + (rb + 2) * (cb + 2) - 1)
                               |-> a + 1]
    /\ pre = mem
    /\ org = [V |-> NoOrg, W |-> NoOrg]
    /\ call = Idle
    /\ hist = <<>>
    /\ steps = 0

\* one call of the family on (Dest, Src); res is [ok, abort, mem]
IndexCall(op, vToRows, vToCols, vrows, vcols, res) ==
    /\ pre' = mem
    /\ mem' = res.mem
    /\ call' = [op |-> op, vToRows |-> vToRows, vToCols |-> vToCols,
                vrows |-> vrows, vcols |-> vcols,
                ok |-> res.ok, abort |-> res.abort]
    /\ steps' = steps + 1
    /\ UNCHANGED <<A, B, V, W, org, hist>>

ReorderColumns ==
    /\ call.op = "none"
    /\ \E vToCols \in IdxLists, vcols \in IdxLists, checked \in BOOLEAN :
        IndexCall("reorderColumnsByVectors", <<>>, vToCols, <<>>, vcols,
                  reorderColumnsByVectors(mem, Obj(Dest), vToCols,
                                          Obj(Src), vcols, checked))

ReorderRows ==
    /\ call.op = "none"
    /\ \E vToRows \in IdxLists, vrows \in IdxLists, checked \in BOOLEAN :
        IndexCall("reorderRowsByVectors", vToRows, <<>>, vrows, <<>>,
                  reorderRowsByVectors(mem, Obj(Dest), vToRows,
                                       Obj(Src), vrows, checked))

AssignByVectors ==
    /\ call.op = "none"
    /\ \E vToRows \in IdxLists, vToCols \in IdxLists,
       vrows \in IdxLists, vcols \in IdxLists, checked \in BOOLEAN :
        IndexCall("assignByVectors", vToRows, vToCols, vrows, vcols,
                  assignByVectors(mem, Obj(Dest), vToRows, vToCols,
                                  Obj(Src), vrows, vcols, checked))

NextIdx == ReorderColumns \/ ReorderRows \/ AssignByVectors

SpecIdx == InitIdx /\ [][NextIdx]_vars

(* ------------------- assignment, filling and copies ------------------- *)
\* A is ra x ca.  W is the MatrixConstView of the rows 1.. of A, so it is
\* (ra-1) x ca with ld = ra.  V is the MatrixView at (1, 1) of the Matrix B,
\* which has two rows and two columns more than V, so V has ld = rows + 2;
\* V has the shape of A, or one row less (the shape of W), or one column
\* less.  Cell a holds a + 1.
InitCopy ==
    /\ \E ra \in 2..MaxN, ca \in 1..MaxN, shape \in {"same", "rows", "cols"} :
          LET rv == IF shape = "rows" THEN ra - 1 ELSE ra
              cv == IF shape = "cols" THEN ca - 1 ELSE ca
          IN  /\ A = Matrix(0, ra, ca)
              /\ W = ViewCtor("MatrixConstView", A, 1, 0, ra - 1, ca).view
              /\ B = Matrix(ra * ca, rv + 2, cv + 2)
              /\ V = ViewCtor("MatrixView", B, 1, 1, rv, cv).view
              /\ mem = [a \in 0..(ra * ca + (rv + 2) * (cv + 2) - 1) |-> a + 1]
    /\ pre = mem
    /\ org = [V |-> NoOrg, W |-> NoOrg]
    /\ call = Idle
    /\ hist = <<>>
    /\ steps = 0

\* one call on the objects m1 (written) and m2 (read); res is [ok, mem]
CopyCall(op, m1, m2, i, j, val, res) ==
    /\ pre' = mem
    /\ mem' = res.mem
    /\ call' = [op |-> op, m1 |-> m1, m2 |-> m2, i |-> i, j |-> j,
                val |-> val, ok |-> res.ok]
    /\ steps' = steps + 1
    /\ UNCHANGED <<A, B, V, W, org, hist>>

\* the operand pairs of different classes whose blocks do not overlap, and
\* W for A, which always differs from A in rows
CopyPairs == {<<"A", "V">>, <<"V", "A">>, <<"V", "W">>, <<"A", "W">>}

\* m1 = m2
AssignTo ==
    /\ call.op = "none"
    /\ \E pr \in CopyPairs :
          CopyCall("assign", pr[1], pr[2], 0, 0, 0,
                   Assign(mem, Obj(pr[1]), Obj(pr[2])))

\* m.setAll(val)
FillVal == 0 - 1
SetAll ==
    /\ call.op = "none"
    /\ \E m \in {"A", "V"} :
          CopyCall("setAll", m, "-", 0, 0, FillVal,
                   [ok |-> TRUE, mem |-> setAll(mem, Obj(m), FillVal)])

\* row_copy(m2, row_src, m1, row_dest); W is a view of rows of A, so
\* row_copy(W, i, A, j) copies inside one buffer
RowIdx == 0..MaxN
RowCopy ==
    /\ call.op = "none"
    /\ \E pr \in CopyPairs, row_src \in RowIdx, row_dest \in RowIdx :
          CopyCall("row_copy", pr[1], pr[2], row_src, row_dest, 0,
                   row_copy(mem, Obj(pr[2]), row_src, Obj(pr[1]), row_dest))

NextCopy == AssignTo \/ SetAll \/ RowCopy

SpecCopy == InitCopy /\ [][NextCopy]_vars

(* ------------------------------- tiling ------------------------------- *)
Mults == 0..MaxRep
RepDims == 0..MaxRep
OutDims == {x * y : x \in 0..MaxRep, y \in 0..MaxRep}

\* The source is the r x c Matrix A, or the r x c MatrixConstView W at
\* (1, 1) of A; the result is the R x C Matrix B, or the R x C MatrixView V
\* at (1, 1) of B.  Cell a holds a + 1.
InitRep ==
    /\ \E r \in RepDims, c \in RepDims, R \in OutDims, C \in OutDims,
          viewSrc \in BOOLEAN, viewOut \in BOOLEAN :
          LET ea == IF viewSrc THEN 2 ELSE 0
              eb == IF viewOut THEN 2 ELSE 0
              na == (r + ea) * (c + ea)
          IN  /\ A = Matrix(0, r + ea, c + ea)
              /\ W = IF viewSrc
                     THEN ViewCtor("MatrixConstView", A, 1, 1, r, c).view
                     ELSE NoObj
              /\ B = Matrix(na, R + eb, C + eb)
              /\ V = IF viewOut
                     THEN ViewCtor("MatrixView", B, 1, 1, R, C).view
                     ELSE NoObj
              /\ mem = [a \in 0..(na + (R + eb) * (C + eb) - 1) |-> a + 1]
    /\ pre = mem
    /\ org = [V |-> NoOrg, W |-> NoOrg]
    /\ call = Idle
    /\ hist = <<>>
    /\ steps = 0

RepSrc == IF W # NoObj THEN "W" ELSE "A"
RepOut == IF V # NoObj THEN "V" ELSE "B"

\* repmat(RepSrc, multv, multh, RepOut)
Repmat ==
    /\ call.op = "none"
    /\ \E multv \in Mults, multh \in Mults :
          LET res == repmat(mem, Obj(RepSrc), multv, multh, Obj(RepOut))
          IN  /\ pre' = mem
              /\ mem' = res.mem
              /\ call' = [op |-> "repmat", m1 |-> RepSrc, m2 |-> RepOut,
                          multv |-> multv, multh |-> multh, ok |-> res.ok]
              /\ steps' = steps + 1
              /\ UNCHANGED <<A, B, V, W, org, hist>>

NextRep == Repmat

SpecRep == InitRep /\ [][NextRep]_vars

(* ----------------------------- arithmetic ----------------------------- *)
Scalars == 1..MaxArith

\* one call of add or sub on m1, with the operand m2 or the scalar d
ArithCall(op, m1, m2, d, res) ==
    /\ call.ok
    /\ steps < MaxArith
    /\ pre' = mem
    /\ mem' = res.mem
    /\ call' = [op |-> op, m1 |-> m1, m2 |-> m2, d |-> d, ok |-> res.ok]
    /\ hist' = IF res.ok THEN Append(hist, <<op, m1, m2, d>>) ELSE hist
    /\ steps' = steps + 1
    /\ UNCHANGED <<A, B, V, W, org>>

\* the operands: A and the view V of B have one shape and share no cell; B
\* is larger than both
ArithPairs == {<<"A", "V">>, <<"V", "A">>, <<"A", "B">>, <<"V", "B">>}

AddMatrix ==
    \E pr \in ArithPairs :
        ArithCall("add", pr[1], pr[2], 0, add(mem, Obj(pr[1]), Obj(pr[2])))

SubMatrix ==
    \E pr \in ArithPairs :
        ArithCall("sub", pr[1], pr[2], 0, sub(mem, Obj(pr[1]), Obj(pr[2])))

AddScalar ==
    \E m \in {"A", "V"}, d \in Scalars :
        ArithCall("addScalar", m, "-", d, addScalar(mem, Obj(m), d))

SubScalar ==
    \E m \in {"A", "V"}, d \in Scalars :
        ArithCall("subScalar", m, "-", d, subScalar(mem, Obj(m), d))

NextArith == AddMatrix \/ SubMatrix \/ AddScalar \/ SubScalar

SpecArith == InitAlg /\ [][NextArith]_vars

(* --------------------- claims about the algorithms --------------------- *)
M1 == Obj(call.m1)
M2 == Obj(call.m2)
Rows(M) == 0..(M.rows - 1)
Cols(M) == 0..(M.cols - 1)
Last(q) == q[Len(q)]

\* C4: in-place transpose fails exactly when M is not square; one
\* application gives new M(i,j) = old M(j,i) for all i, j; and a second
\* application to the same M restores every cell of the heap.
TransposeIsInvolution ==
    /\ [](call.op = "transpose" =>
            /\ call.ok <=> (M1.rows = M1.cols)
            /\ ~call.ok => mem = pre
            /\ call.ok => \A i \in Rows(M1), j \in Cols(M1) :
                             At(mem, M1, i, j) = At(pre, M1, j, i))
    /\ [][(/\ call.op = "transpose" /\ call.ok
           /\ call'.op = "transpose" /\ call'.ok
           /\ call'.m1 = call.m1
           /\ steps' = steps + 1) => mem' = pre]_vars

\* C4 witness: a 3x3 view with ld = 5 has been transposed twice in a row
TransposeTwiceWitness ==
    /\ call.op = "transpose" /\ call.ok /\ call.m1 = "V"
    /\ V.rows = 3 /\ getLd(V) > V.rows
    /\ Len(hist) >= 2
    /\ hist[Len(hist) - 1] = <<"transpose", "V", "-">>
    /\ mem # pre
    /\ At(mem, V, 2, 0) = At(pre, V, 0, 2)

\* the last three mutating calls were set_identity(M), set_identity(I) in
\* either order and then sub(M, I)
SubtractedIdentity(M, I) ==
    /\ Len(hist) >= 3
    /\ Last(hist) = <<"sub", M, I>>
    /\ {hist[Len(hist) - 1], hist[Len(hist) - 2]} =
          {<<"set_identity", M, "-">>, <<"set_identity", I, "-">>}

\* C6: after set_identity(M), whatever M held, M(i,j) is 1 where i = j and
\* 0 elsewhere (square or rectangular), and nrminf of M after sub(M, I),
\* I made by set_identity too, is 0.
SetIdentityGivesI ==
    /\ call.op = "set_identity" =>
          \A i \in Rows(M1), j \in Cols(M1) :
             At(mem, M1, i, j) = IF i = j THEN 1 ELSE 0
    /\ \A M \in {"A", "V"}, I \in {"A", "V"} :
          (call.op = "nrminf" /\ call.m1 = M /\ SubtractedIdentity(M, I))
             => call.ret = 0

\* C6 witness: nrminf of a 3x3 Matrix after set_identity and sub(M, I)
IdentityNormWitness ==
    /\ call.op = "nrminf" /\ call.m1 = "A" /\ SubtractedIdentity("A", "V")
    /\ A.rows = 3 /\ A.cols = 3
    /\ call.ret = 0

\* m2 is m1 with e added to every element
Shifted(m1, m2, e) ==
    /\ m1.rows = m2.rows /\ m1.cols = m2.cols
    /\ \A i \in Rows(m1), j \in Cols(m1) :
          At(mem, m2, i, j) = At(mem, m1, i, j) + e

\* some pair of corresponding elements differs by more than tol
SomePairDiffers(m1, m2, tol) ==
    \E i \in Rows(m1), j \in Cols(m1) :
       fabs(At(mem, m1, i, j) - At(mem, m2, i, j)) > tol

\* C5 (as claimed): isDiff(M, M, 0) is false; isDiff(M, M + epsilon, tol) is
\* false iff epsilon <= tol; isDiff is true iff some pair differs by more
\* than tol.
IsDiffIffEpsLeTol ==
    (call.op = "isDiff" /\ call.ok) =>
        /\ (call.m1 = call.m2 /\ call.tol = 0) => ~call.ret
        /\ \A e \in Eps :
              Shifted(M1, M2, e) => (~call.ret <=> e <= call.tol)
        /\ call.ret <=> SomePairDiffers(M1, M2, call.tol)

\* C5 (amended): isDiff(M, M, 0) is false; isDiff(M, M + epsilon, tol) is
\* false iff M has no element or |epsilon| <= tol; isDiff is true iff some
\* pair differs by more than tol; it fails when the dimensions differ.
IsDiffIffAbsEpsLeTol ==
    call.op = "isDiff" =>
        /\ call.ok <=> (M1.rows = M2.rows /\ M1.cols = M2.cols)
        /\ call.ok =>
            /\ (call.m1 = call.m2 /\ call.tol = 0) => ~call.ret
            /\ \A e \in Eps :
                  Shifted(M1, M2, e) =>
                     (~call.ret <=>
                         (M1.rows * M1.cols = 0 \/ fabs(e) <= call.tol))
            /\ call.ret <=> SomePairDiffers(M1, M2, call.tol)

\* C5 witness: a 3x3 Matrix against the view holding it plus 2, tol = 2
IsDiffWitness ==
    /\ call.op = "isDiff" /\ call.ok /\ call.m1 = "A" /\ call.m2 = "W"
    /\ A.rows = 3 /\ A.cols = 3 /\ getLd(W) = 5
    /\ Shifted(A, W, 2) /\ call.tol = 2 /\ ~call.ret

(* ----------------------- claims about the views ------------------------ *)
ViewSlots == {"V", "W"}
Built(slot) == Obj(slot) # NoObj

\* both addresses are cells of the heap and hold the same value
SameCell(a1, a2) ==
    (InHeap(mem, a1) \/ InHeap(mem, a2)) =>
        (InHeap(mem, a1) /\ InHeap(mem, a2) /\ mem[a1] = mem[a2])

\* C1: a view built from (parent, row_offset, col_offset, rows, cols) aliases
\* its parent: after any writes through A, V or W, view(i,j) equals
\* parent(row_offset+i, col_offset+j) for every element of the view, and a
\* view of a view equals the root Matrix at the sum of the offsets.
ViewAliasesParent ==
    /\ \A slot \in ViewSlots :
          Built(slot) =>
             LET M == Obj(slot)
                 P == Obj(org[slot].parent)
             IN  \A i \in 0..(M.rows - 1), j \in 0..(M.cols - 1) :
                    SameCell(Addr(M, i, j),
                             Addr(P, org[slot].row_offset + i,
                                     org[slot].col_offset + j))
    /\ Built("W") =>
          \A i \in 0..(W.rows - 1), j \in 0..(W.cols - 1) :
             SameCell(Addr(W, i, j),
                      Addr(A, org["V"].row_offset + org["W"].row_offset + i,
                              org["V"].col_offset + org["W"].col_offset + j))

\* C1 witness: a write made after V and W were built is read back through
\* W, through V and through A
ViewAliasWitness ==
    /\ Built("V") /\ Built("W")
    /\ V.rows <= MaxDim /\ V.cols <= MaxDim
    /\ org["W"].row_offset = 1 /\ org["V"].col_offset = 1
    /\ call.op = "write"
    /\ \E i \in 0..(W.rows - 1), j \in 0..(W.cols - 1) :
          /\ At(mem, W, i, j) = WriteVal
          /\ At(pre, W, i, j) # WriteVal
          /\ At(mem, V, org["W"].row_offset + i, org["W"].col_offset + j) = WriteVal

\* C2 (as claimed): the constructor fails exactly when one of
\* row_offset < parent.rows, row_offset+rows <= parent.rows,
\* col_offset < parent.cols, col_offset+cols <= parent.cols is violated, so
\* a constructed view lies inside its parent.
CtorRejectsOutOfParent ==
    call.op \in ViewKinds =>
        (call.ok <=>
            /\ call.row_offset < call.parent.rows
            /\ call.row_offset + call.rows <= call.parent.rows
            /\ call.col_offset < call.parent.cols
            /\ call.col_offset + call.cols <= call.parent.cols)

\* the view rows 1..2, cols 0..2 of the 4x4 Matrix M(i,j) = i + 4j, before
\* any write
IsView4x4 ==
    /\ A = Matrix(0, 4, 4) /\ Built("V") /\ steps = 0
    /\ org["V"].row_offset = 1 /\ org["V"].col_offset = 0
    /\ V.rows = 2 /\ V.cols = 3

\* C3 (as claimed): that view reads back 1,5,9,2,6,10 in column-major order
ViewReads159 == IsView4x4 => ColMajor(mem, V) = <<1, 5, 9, 2, 6, 10>>

\* C3 (amended): that view reads back 1,2,5,6,9,10 in column-major order;
\* 1,5,9,2,6,10 is its row-major order
ViewReadsColumnMajor ==
    IsView4x4 => /\ ColMajor(mem, V) = <<1, 2, 5, 6, 9, 10>>
                 /\ RowMajor(mem, V) = <<1, 5, 9, 2, 6, 10>>

\* C3 witness: the view has been constructed, as a MatrixConstView
View4x4Witness == IsView4x4 /\ V.kind = "MatrixConstView"

(* ---------------- claims about the index-vector family ---------------- *)
DestM == Obj(Dest)
SrcM == Obj(Src)
DestCells == {Addr(DestM, i, j) : i \in Rows(DestM), j \in Cols(DestM)}
SameShape == getRows(DestM) = getRows(SrcM) /\ getCols(DestM) = getCols(SrcM)

\* the list as the text expands it: empty stands for 0..count-1
Expanded(v, count) == IF Len(v) = 0 THEN Iota(count) ELSE v
InRange(v, count) == \A k \in 1..Len(v) : v[k] < count
Named(v) == {v[k] : k \in 1..Len(v)}
\* k is the last place of v that names v[k]
IsLastUse(v, k) == \A k2 \in (k + 1)..Len(v) : v[k2] # v[k]

\* no index is named twice in v
NoRepeat(v) == \A k \in 1..Len(v) : IsLastUse(v, k)

\* column j of the destination now holds what column jb of the source held
ColEq(j, jb) ==
    \A i \in Rows(DestM) : At(mem, DestM, i, j) = At(pre, SrcM, i, jb)
\* row i of the destination now holds what row ib of the source held
RowEq(i, ib) ==
    \A j \in Cols(DestM) : At(mem, DestM, i, j) = At(pre, SrcM, ib, j)
ColKept(j) ==
    \A i \in Rows(DestM) : At(mem, DestM, i, j) = At(pre, DestM, i, j)
RowKept(i) ==
    \A j \in Cols(DestM) : At(mem, DestM, i, j) = At(pre, DestM, i, j)
\* nothing but the elements of the destination has changed
OutsideKept == \A a \in DOMAIN mem : a \notin DestCells => mem[a] = pre[a]

\* C7: reorderColumnsByVectors(dest, [], src, []) ends exactly as dest = src
\* does: it succeeds iff rows and columns of dest and src agree, then every
\* dest(i,j) equals src(i,j) and no other cell of the heap has changed; with
\* different column counts (or row counts) it fails, as the assignment does,
\* and the heap is as before.
ReorderNoListsIsAssign ==
    (/\ call.op = "reorderColumnsByVectors"
     /\ call.vToCols = <<>> /\ call.vcols = <<>>)
    => /\ call.ok <=> SameShape
       /\ call.ok = Assign(pre, DestM, SrcM).ok
       /\ mem = Assign(pre, DestM, SrcM).mem
       /\ call.ok => \A i \in Rows(DestM), j \in Cols(DestM) :
                        At(mem, DestM, i, j) = At(pre, SrcM, i, j)
       /\ OutsideKept
       /\ ~call.ok => mem = pre

\* C7 witness: the call without lists has copied a MaxK x (MaxK-1) view,
\* whose ld exceeds its rows, into a Matrix
ReorderNoListsWitness ==
    /\ call.op = "reorderColumnsByVectors"
    /\ call.vToCols = <<>> /\ call.vcols = <<>>
    /\ call.ok /\ Dest = "A" /\ Src = "W"
    /\ getRows(A) = MaxK /\ getCols(A) = MaxK - 1
    /\ getLd(W) > getRows(W) /\ mem # pre

\* C8 (as claimed, for the calls in which destCols names no column twice
\* and neither list is longer than the column count of its matrix):
\* reorderColumnsByVectors with at least one non-empty list, an empty list
\* standing for 0..count-1 of its own matrix, dest.rows = src.rows,
\* expanded lists of equal length and indices in bounds: for every k,
\* destination column destCols[k] equals source column srcCols[k], and
\* every destination column not named is unchanged.
ReorderColumnsCopiesListed ==
    (/\ call.op = "reorderColumnsByVectors"
     /\ call.vToCols # <<>> \/ call.vcols # <<>>
     /\ getRows(DestM) = getRows(SrcM)
     /\ Len(Expanded(call.vToCols, getCols(DestM)))
           = Len(Expanded(call.vcols, getCols(SrcM)))
     /\ InRange(call.vToCols, getCols(DestM))
     /\ InRange(call.vcols, getCols(SrcM))
     /\ NoRepeat(call.vToCols)
     /\ Len(call.vToCols) <= getCols(DestM)
     /\ Len(call.vcols) <= getCols(SrcM))
    => LET dc == Expanded(call.vToCols, getCols(DestM))
           sc == Expanded(call.vcols, getCols(SrcM))
       IN  /\ \A k \in 1..Len(dc) : ColEq(dc[k], sc[k])
           /\ \A j \in Cols(DestM) \ Named(dc) : ColKept(j)

\* what is common to C9 as claimed and as amended: assignByVectors with both
\* column lists empty and both row lists non-empty
RowsOnlyCall ==
    /\ call.op = "assignByVectors"
    /\ call.vToCols = <<>> /\ call.vcols = <<>>
    /\ call.vToRows # <<>> /\ call.vrows # <<>>

\* C9 (as claimed): with dest.cols = src.cols, row lists of equal length and
\* indices in bounds, for every k row destRows[k] of dest is row
\* srcRows[k] of src.
AssignRowsOnlyCopiesEveryRow ==
    (/\ RowsOnlyCall
     /\ getCols(DestM) = getCols(SrcM)
     /\ Len(call.vToRows) = Len(call.vrows)
     /\ InRange(call.vToRows, getRows(DestM))
     /\ InRange(call.vrows, getRows(SrcM)))
    => \A k \in 1..Len(call.vToRows) : RowEq(call.vToRows[k], call.vrows[k])

\* C9 (amended): the call ends as reorderRowsByVectors ends.  It succeeds
\* iff dest.cols = src.cols, the lists have equal length, no list is longer
\* than the row count of its matrix and all indices are in bounds; otherwise
\* it aborts and the heap is as before.  When it succeeds, for every k
\* whose destination row is not named again later in destRows, row
\* destRows[k] of dest is row srcRows[k] of src; rows not named and all
\* cells outside dest are unchanged.  destRows = [1,0], srcRows = [0,1] on
\* 2 x N matrices puts the rows of src into dest in reversed order.
AssignRowsOnlyIsRowReorder ==
    RowsOnlyCall
    => LET dr == call.vToRows
           sr == call.vrows
           fits == /\ getCols(DestM) = getCols(SrcM)
                   /\ Len(dr) = Len(sr)
                   /\ Len(dr) <= getRows(DestM) /\ Len(sr) <= getRows(SrcM)
                   /\ InRange(dr, getRows(DestM))
                   /\ InRange(sr, getRows(SrcM))
       IN  /\ call.ok <=> fits
           /\ \A checked \in BOOLEAN :
                 LET r == reorderRowsByVectors(pre, DestM, dr, SrcM, sr,
                                               checked)
                 IN  call.ok = r.ok /\ mem = r.mem
           /\ ~call.ok => mem = pre /\ call.abort = "assert"
           /\ call.ok => /\ \A k \in 1..Len(dr) :
                               IsLastUse(dr, k) => RowEq(dr[k], sr[k])
                         /\ \A i \in Rows(DestM) \ Named(dr) : RowKept(i)
           /\ OutsideKept
           /\ (fits /\ dr = <<1, 0>> /\ sr = <<0, 1>>
                    /\ getRows(DestM) = 2 /\ getRows(SrcM) = 2)
              => RowEq(0, 1) /\ RowEq(1, 0)

\* C9 witness: assignByVectors(dest, [1,0], [], src, [0,1], []) has
\* returned on a 2 x MaxK view of a larger Matrix
AssignRowsOnlyWitness ==
    /\ RowsOnlyCall /\ call.ok
    /\ call.vToRows = <<1, 0>> /\ call.vrows = <<0, 1>>
    /\ Dest = "V" /\ getRows(V) = 2 /\ getCols(V) = MaxK
    /\ getRows(B) = 2 /\ mem # pre

\* C10 (as claimed, for the calls in which no destination row or column is
\* named twice and no list is longer than its axis): in the general case of
\* assignByVectors (no fast path), with every empty list standing for the
\* full range of its matrix and axis, row-list lengths equal, column-list
\* lengths equal and all indices in bounds:
\* dest(destRows[i], destCols[j]) = src(srcRows[i], srcCols[j]) for every
\* (i,j), and every dest element not addressed is unchanged.
AssignByVectorsCrossProduct ==
    (/\ call.op = "assignByVectors"
     /\ call.vToRows # <<>> \/ call.vrows # <<>>
     /\ call.vToCols # <<>> \/ call.vcols # <<>>
     /\ Len(Expanded(call.vToRows, getRows(DestM)))
           = Len(Expanded(call.vrows, getRows(SrcM)))
     /\ Len(Expanded(call.vToCols, getCols(DestM)))
           = Len(Expanded(call.vcols, getCols(SrcM)))
     /\ InRange(call.vToRows, getRows(DestM))
     /\ InRange(call.vToCols, getCols(DestM))
     /\ InRange(call.vrows, getRows(SrcM))
     /\ InRange(call.vcols, getCols(SrcM))
     /\ NoRepeat(call.vToRows) /\ NoRepeat(call.vToCols)
     /\ Len(call.vToRows) <= getRows(DestM)
     /\ Len(call.vToCols) <= getCols(DestM)
     /\ Len(call.vrows) <= getRows(SrcM)
     /\ Len(call.vcols) <= getCols(SrcM))
    => LET dr == Expanded(call.vToRows, getRows(DestM))
           dc == Expanded(call.vToCols, getCols(DestM))
           sr == Expanded(call.vrows, getRows(SrcM))
           sc == Expanded(call.vcols, getCols(SrcM))
       IN  /\ \A i \in 1..Len(dr), j \in 1..Len(dc) :
                 At(mem, DestM, dr[i], dc[j]) = At(pre, SrcM, sr[i], sc[j])
           /\ \A i \in Rows(DestM), j \in Cols(DestM) :
                 (i \notin Named(dr) \/ j \notin Named(dc))
                 => At(mem, DestM, i, j) = At(pre, DestM, i, j)

\* the call names an index beyond its axis, or its destination and source
\* lists, each empty list standing for the full range, differ in length
BadIndexCall ==
    \/ ~InRange(call.vToRows, getRows(DestM))
    \/ ~InRange(call.vToCols, getCols(DestM))
    \/ ~InRange(call.vrows, getRows(SrcM))
    \/ ~InRange(call.vcols, getCols(SrcM))
    \/ Len(Expanded(call.vToRows, getRows(DestM)))
          # Len(Expanded(call.vrows, getRows(SrcM)))
    \/ Len(Expanded(call.vToCols, getCols(DestM)))
          # Len(Expanded(call.vcols, getCols(SrcM)))
IndexOps ==
    {"reorderColumnsByVectors", "reorderRowsByVectors", "assignByVectors"}

\* C11: a call of reorderColumnsByVectors, reorderRowsByVectors or
\* assignByVectors whose expanded destination and source lists differ in
\* length, or that names an index >= the dimension of its own matrix,
\* aborts, and no cell of the heap (so no element of dest) has been written;
\* the abort is a failed assertion of the function unless the library
\* stopped the call earlier, while it expanded an empty list.
IndexCallFailsFast ==
    (call.op \in IndexOps /\ BadIndexCall)
    => /\ ~call.ok
       /\ mem = pre
       /\ call.abort \in {"assert", "stl"}
       /\ call.abort = "stl"
          => \E v \in {call.vToRows, call.vToCols, call.vrows, call.vcols} :
                v = <<>>

\* C11 witness: the general path of assignByVectors has aborted on its
\* assertion for the destination row index 2 of a two-row Matrix, all
\* lengths matching
IndexCallFailsFastWitness ==
    /\ call.op = "assignByVectors" /\ ~call.ok /\ call.abort = "assert"
    /\ call.vToRows = <<0, 2>> /\ call.vrows = <<0, 1>>
    /\ call.vToCols = <<1, 0>> /\ call.vcols = <<0, 1>>
    /\ Dest = "A" /\ getRows(A) = 2 /\ getCols(A) = 2
    /\ getRows(SrcM) = 2 /\ getCols(SrcM) = 2

(* ------------ claims about assignment, filling and copies ------------ *)
CellsOf(M) == {Addr(M, i, j) : i \in Rows(M), j \in Cols(M)}
\* nothing but the elements of M has changed
KeptOutside(M) == \A a \in DOMAIN mem : a \notin CellsOf(M) => mem[a] = pre[a]

\* C12: dest = src, for a MatrixView or a Matrix dest and a src of another
\* class, succeeds iff rows and cols of the two agree; then
\* dest(i,j) = src(i,j) for every (i,j), each side addressed with its own
\* ld, and every cell outside the rows x cols block of dest, the rest of a
\* view's parent included, is unchanged; when rows or cols differ it fails
\* and no cell is written.
AssignCopiesBlock ==
    call.op = "assign"
    => /\ call.ok <=> (getRows(M1) = getRows(M2) /\ getCols(M1) = getCols(M2))
       /\ call.ok => \A i \in Rows(M1), j \in Cols(M1) :
                        At(mem, M1, i, j) = At(pre, M2, i, j)
       /\ KeptOutside(M1)
       /\ ~call.ok => mem = pre

\* C12 witness: a MatrixView with ld = rows + 2 has been assigned from a
\* MatrixConstView with ld = rows + 1, at least 2 x 2
AssignCopiesBlockWitness ==
    /\ call.op = "assign" /\ call.ok /\ call.m1 = "V" /\ call.m2 = "W"
    /\ getRows(V) >= 2 /\ getCols(V) >= 2
    /\ getLd(V) = getRows(V) + 2 /\ getLd(W) = getRows(W) + 1
    /\ mem # pre

\* C13: setAll(v) on a MatrixView, ld > rows included, leaves v in each of
\* the rows*cols elements of the view and changes no other cell: not the
\* rows of the parent above and below the view in the columns it covers,
\* and not the columns outside it (and on a Matrix it fills every element).
SetAllFillsViewOnly ==
    call.op = "setAll"
    => /\ \A i \in Rows(M1), j \in Cols(M1) : At(mem, M1, i, j) = call.val
       /\ KeptOutside(M1)

\* C13 witness: setAll has filled a view of at least 2 x 2 elements that
\* has ld = rows + 2, inside a parent with cells around it
SetAllWitness ==
    /\ call.op = "setAll" /\ call.m1 = "V"
    /\ getRows(V) >= 2 /\ getCols(V) >= 2 /\ getLd(V) = getRows(V) + 2
    /\ \E a \in DOMAIN mem : mem[a] = FillVal
    /\ \E a \in CellsOf(B) \ CellsOf(V) : mem[a] = pre[a]

(* ------------------------ claims about tiling ------------------------- *)
\* Out has multv * A.rows rows and multh * A.cols columns
RepFits ==
    /\ getRows(M2) = call.multv * getRows(M1)
    /\ getCols(M2) = call.multh * getCols(M1)
\* every tile (p,q) of Out holds the elements of A
RepTiled ==
    \A p \in 0..(call.multv - 1), q \in 0..(call.multh - 1) :
       \A r \in Rows(M1), c \in Cols(M1) :
          At(mem, M2, p * getRows(M1) + r, q * getCols(M1) + c)
             = At(pre, M1, r, c)

RepCopies == getCols(M1) > 0 /\ call.multv > 0 /\ call.multh > 0

UpperPairDiffers(m1, m2, tol) ==
    \E r \in Rows(m1), c \in Cols(m1) :
       r <= c /\ fabs(At(mem, m1, r, c) - At(mem, m2, r, c)) > tol
\* some pair strictly below the diagonal differs by more than tol
LowerPairDiffers(m1, m2, tol) ==
    \E r \in Rows(m1), c \in Cols(m1) :
       r > c /\ fabs(At(mem, m1, r, c) - At(mem, m2, r, c)) > tol

\* C15: isDiffSym(M1, M2, tol) fails unless M1 and M2 are square and of
\* equal size; otherwise it returns true iff some pair (r,c) with r <= c has
\* |M1(r,c) - M2(r,c)| > tol, whatever the elements below the diagonal are.
IsDiffSymIsUpperTriangle ==
    call.op = "isDiffSym"
    => /\ call.ok <=> /\ getRows(M1) = getRows(M2) /\ getCols(M1) = getCols(M2)
                      /\ getRows(M1) = getCols(M1)
       /\ call.ok => (call.ret <=> UpperPairDiffers(M1, M2, call.tol))

\* C15 witness: on 3 x 3 operands that differ by more than tol below the
\* diagonal and nowhere else, isDiffSym has returned false
IsDiffSymWitness ==
    /\ call.op = "isDiffSym" /\ call.ok /\ ~call.ret
    /\ call.m1 = "A" /\ call.m2 = "W" /\ getRows(A) = 3 /\ getCols(A) = 3
    /\ LowerPairDiffers(A, W, call.tol)

(* ---------------------- claims about arithmetic ----------------------- *)
\* +1 for the additions, -1 for the subtractions
SignOf(op) == IF op \in {"add", "addScalar"} THEN 1 ELSE 0 - 1

\* add(m1, m2) / sub(m1, m2) has failed on different shapes, or has put
\* old m1(i,j) +/- m2(i,j) in every m1(i,j), each operand addressed with
\* its own ld, and has changed no other cell, so none of m2 either
MatrixArithDone ==
    call.op \in {"add", "sub"}
    => /\ call.ok <=> (getRows(M1) = getRows(M2) /\ getCols(M1) = getCols(M2))
       /\ call.ok => \A i \in Rows(M1), j \in Cols(M1) :
                        At(mem, M1, i, j)
                           = At(pre, M1, i, j)
                                + SignOf(call.op) * At(pre, M2, i, j)
       /\ KeptOutside(M1)
       /\ \A a \in CellsOf(M2) \ CellsOf(M1) : mem[a] = pre[a]
       /\ ~call.ok => mem = pre

\* add(m1, d) / sub(m1, d) has put old m1(i,j) +/- d in every m1(i,j) and
\* has changed no other cell
ScalarArithDone ==
    call.op \in {"addScalar", "subScalar"}
    => /\ call.ok
       /\ \A i \in Rows(M1), j \in Cols(M1) :
             At(mem, M1, i, j) = At(pre, M1, i, j) + SignOf(call.op) * call.d
       /\ KeptOutside(M1)

\* C16: add(m1, m2) and sub(m1, m2) fail if rows or cols differ and
\* otherwise make m1(i,j) = old m1(i,j) +/- m2(i,j) over the rows x cols
\* elements of m1, whatever the two leading dimensions are, changing no
\* parent element outside a view m1 and nothing of m2; add(m1, d) and
\* sub(m1, d) add and subtract d in every element of m1 and nowhere else;
\* and add(m1, d) directly after sub(m1, d) leaves the heap as it was before
\* the sub.  Elements are integers.
AddSubElementwise ==
    /\ [](MatrixArithDone /\ ScalarArithDone)
    /\ [][(/\ call.op = "subScalar"
           /\ call'.op = "addScalar"
           /\ call'.m1 = call.m1 /\ call'.d = call.d)
          => mem' = pre]_vars

\* C16 witness: sub(V, d) and then add(V, d) have run on a view of at least
\* 2 x 2 elements with ld = rows + 2, after which the heap that sub had
\* changed is back
AddSubWitness ==
    /\ call.op = "addScalar" /\ call.m1 = "V"
    /\ Len(hist) = 2 /\ hist[1] = <<"subScalar", "V", "-", call.d>>
    /\ getRows(V) >= 2 /\ getCols(V) >= 2 /\ getLd(V) = getRows(V) + 2
    /\ mem # pre

\* the cells of row i of M
RowCells(M, i) == {Addr(M, i, j) : j \in Cols(M)}

\* C17: row_copy(src, row_src, dest, row_dest) fails unless
\* src.cols = dest.cols, row_src < src.rows and row_dest < dest.rows;
\* otherwise its loop dereferences exactly the src.cols pairs
\* (src(row_src, j), dest(row_dest, j)), j = 0..cols-1 in order, whatever
\* row_src and the two leading dimensions are, so that
\* dest(row_dest, j) = src(row_src, j) for all j and no cell outside row
\* row_dest of dest has changed; a failed call writes nothing.
RowCopyCopiesOneRow ==
    call.op = "row_copy"
    => /\ call.ok <=> /\ getCols(M2) = getCols(M1)
                      /\ call.i < getRows(M2) /\ call.j < getRows(M1)
       /\ call.ok =>
            /\ RowCopyTrace(M2, M1, getData(M2) + call.i, getData(M1) + call.j)
                  = [k \in 1..getCols(M2) |->
                        <<Addr(M2, call.i, k - 1), Addr(M1, call.j, k - 1)>>]
            /\ \A c \in Cols(M1) :
                  At(mem, M1, call.j, c) = At(pre, M2, call.i, c)
            /\ \A a \in DOMAIN mem \ RowCells(M1, call.j) : mem[a] = pre[a]
       /\ ~call.ok => mem = pre

\* C17 witness: the last row of a MatrixConstView with ld = rows + 1 has
\* been copied into the last row of a MatrixView with ld = rows + 2, over at
\* least two columns
RowCopyWitness ==
    /\ call.op = "row_copy" /\ call.ok /\ call.m1 = "V" /\ call.m2 = "W"
    /\ call.i = getRows(W) - 1 /\ call.i > 0
    /\ call.j = getRows(V) - 1 /\ call.j > 0
    /\ getCols(V) >= 2 /\ mem # pre

(* ------------- claims about the rejections of the family ------------- *)
\* the call takes column lists, row lists
TakesCols == call.op \in {"reorderColumnsByVectors", "assignByVectors"}
TakesRows == call.op \in {"reorderRowsByVectors", "assignByVectors"}

\* some list has more entries than its matrix has rows or columns
ListTooLong ==
    \/ Len(call.vToRows) > getRows(DestM) \/ Len(call.vToCols) > getCols(DestM)
    \/ Len(call.vrows) > getRows(SrcM) \/ Len(call.vcols) > getCols(SrcM)

\* on some axis of the call both lists are empty and both matrices have
\* size zero, so both expanded lists have length zero
BothExpandToNothing ==
    \/ /\ TakesCols /\ call.vToCols = <<>> /\ call.vcols = <<>>
       /\ getCols(DestM) = 0 /\ getCols(SrcM) = 0
    \/ /\ TakesRows /\ call.vToRows = <<>> /\ call.vrows = <<>>
       /\ getRows(DestM) = 0 /\ getRows(SrcM) = 0

\* on some axis of the call one list is empty on a matrix of size zero and
\* the other list is not empty
OneExpandsToNothing ==
    \/ /\ TakesCols /\ call.vToCols = <<>> /\ getCols(DestM) = 0
       /\ call.vcols # <<>>
    \/ /\ TakesCols /\ call.vcols = <<>> /\ getCols(SrcM) = 0
       /\ call.vToCols # <<>>
    \/ /\ TakesRows /\ call.vToRows = <<>> /\ getRows(DestM) = 0
       /\ call.vrows # <<>>
    \/ /\ TakesRows /\ call.vrows = <<>> /\ getRows(SrcM) = 0
       /\ call.vToRows # <<>>

\* C18 (as claimed): a call with a list longer than its axis aborts, and so
\* does a call whose expanded lists have length zero; dest is unchanged.
RejectsLongAndEmpty ==
    (call.op \in IndexOps /\ (ListTooLong \/ BothExpandToNothing))
    => ~call.ok /\ mem = pre

\* C18 (amended): a call with a non-empty list longer than its axis aborts
\* even when every entry is in bounds, and so does a call in which an empty
\* list stands for a zero-sized axis while the opposite list is not empty;
\* dest is unchanged.  When both lists of a zero-sized axis are empty the
\* call is not rejected for that: without any list it is the assignment,
\* which returns iff the shapes agree, and in every case nothing is
\* written, dest having no element.
RejectsLongAndLoneEmpty ==
    call.op \in IndexOps
    => /\ (ListTooLong \/ OneExpandsToNothing) => (~call.ok /\ mem = pre)
       /\ BothExpandToNothing => mem = pre
       /\ (/\ BothExpandToNothing
           /\ call.vToRows = <<>> /\ call.vToCols = <<>>
           /\ call.vrows = <<>> /\ call.vcols = <<>>)
          => (call.ok <=> SameShape)

\* C18 witness: reorderColumnsByVectors has aborted on its assertion for
\* the lists [0,1,0] and [0,1,0] on matrices of two columns
RejectsLongWitness ==
    /\ call.op = "reorderColumnsByVectors"
    /\ call.vToCols = <<0, 1, 0>> /\ call.vcols = <<0, 1, 0>>
    /\ getCols(DestM) = 2 /\ getCols(SrcM) = 2
    /\ getRows(DestM) = getRows(SrcM) /\ getRows(DestM) > 0
    /\ ~call.ok /\ call.abort = "assert"

\* the three fast paths of assignByVectors
ColumnsPath ==
    /\ call.op = "assignByVectors"
    /\ call.vToRows = <<>> /\ call.vrows = <<>>
    /\ call.vToCols # <<>> \/ call.vcols # <<>>
RowsPath ==
    /\ call.op = "assignByVectors"
    /\ call.vToCols = <<>> /\ call.vcols = <<>>
    /\ call.vToRows # <<>> \/ call.vrows # <<>>
AssignPath ==
    /\ call.op = "assignByVectors"
    /\ call.vToRows = <<>> /\ call.vrows = <<>>
    /\ call.vToCols = <<>> /\ call.vcols = <<>>
\* the call has failed an assertion and no cell has been written
AssertedUnwritten == ~call.ok /\ call.abort = "assert" /\ mem = pre

\* C19: assignByVectors with both row lists empty and a column list
\* non-empty aborts if dest.rows # src.rows; with both column lists empty
\* and a row list non-empty it aborts if dest.cols # src.cols; with all four
\* lists empty it returns iff rows and cols are both equal and aborts
\* otherwise; each abort is a failed assertion before any write.
FastPathsRejectShapes ==
    /\ (ColumnsPath /\ getRows(DestM) # getRows(SrcM)) => AssertedUnwritten
    /\ (RowsPath /\ getCols(DestM) # getCols(SrcM)) => AssertedUnwritten
    /\ AssignPath => /\ call.ok <=> SameShape
                     /\ ~call.ok => AssertedUnwritten

\* C19 witness: assignByVectors(dest, [], [1,0], src, [], [0,1]) has
\* aborted for a dest of MaxK rows and a src of fewer rows, both with
\* MaxK columns
FastPathsWitness ==
    /\ ColumnsPath /\ AssertedUnwritten
    /\ call.vToCols = <<1, 0>> /\ call.vcols = <<0, 1>>
    /\ getRows(DestM) = MaxK /\ getRows(SrcM) = MaxK - 1
    /\ getCols(DestM) = MaxK /\ getCols(SrcM) = MaxK

=============================================================================
